---- MODULE Spec2Model ----
(***************************************************************************)
(* A model of src/main.rs of isaacg1/spiral: the all-colours image         *)
(* generator.  make_image is modelled as a state machine (one action per   *)
(* step of its control flow), remove_random and the hashbrown table it     *)
(* samples as operators on a bucket array, and the f64 walk as a           *)
(* reduced-precision binary floating point (FRAC_BITS fractional bits,     *)
(* MANT_BITS bits of mantissa, round to nearest even).                     *)
(***************************************************************************)
EXTENDS Integers, Sequences, FiniteSets, TLC

VARIABLES
    pc,                     \* position in make_image / the set driver
    scale, num_seeds, initial_turn_rate, alpha, cycle_cap, seed,  \* parameters
    rng,                    \* state of the random source
    color_bases,            \* Vec<ColorBase> in processing order
    i,                      \* index of the colour the outer loop is at
    grid,                   \* Location -> ColorBase or None
    initial_dirs,           \* Location -> heading
    color_base_to_location, \* HashMap<ColorBase, Location>
    open_locs,              \* HashSet<Location>: its raw table
    dir, loc, step,         \* the walk's heading, position and step counter
    ret,                    \* the last set operation: [op, arg, value]
    hist,                   \* history: the set's size at start, removals of each kind so far
    img                     \* the rendered image, Location -> Color

vars == <<pc, scale, num_seeds, initial_turn_rate, alpha, cycle_cap, seed, rng,
          color_bases, i, grid, initial_dirs, color_base_to_location, open_locs,
          dir, loc, step, ret, hist, img>>

-----------------------------------------------------------------------------
(* Bounds of the model *)

\* seeds 0..MaxSeed are tried
MaxSeed == 1
\* cycle_cap ranges over 1..MaxCycleCap
MaxCycleCap == 2
\* num_seeds ranges over 0..MaxNumSeeds and the two values scale^6 - 1, scale^6
MaxNumSeeds == 1
\* initial_turn_rate ranges over 0..MaxTurnRate sixteenths of a turn
MaxTurnRate == 1
\* the set driver starts from sets of 1..MaxSetLen Locations
MaxSetLen == 8

\* the colour conversion is tried for the scales 2..MaxColorScale
MaxColorScale == 3
\* the enumeration of the colours is followed up to the index MaxGenIndex
MaxGenIndex == 257

\* the values of scale that are tried: the two invalid ones and the smallest valid
ScaleValues == {0, 1, 2}
\* alpha is 0 or 1, so that step^alpha is an integer (with a turn rate of 0
\* the increment is 0 whatever alpha is, and only alpha = 0 is tried)
AlphaValues == {0, 1}

-----------------------------------------------------------------------------
(* Small helpers *)

None == << >>

Min(S) == CHOOSE x \in S : \A y \in S : x <= y

Max2(a, b) == IF a >= b THEN a ELSE b

RECURSIVE Pow(_, _)
Pow(b, e) == IF e = 0 THEN 1 ELSE b * Pow(b, e - 1)

RECURSIVE NextPowerOfTwo(_)
NextPowerOfTwo(n) == IF n <= 1 THEN 1 ELSE 2 * NextPowerOfTwo((n + 1) \div 2)

Abs(x) == IF x < 0 THEN -x ELSE x

\* e, evaluated after v (sequencing of the evaluation; the value is e)
Then(v, e) == IF v = v THEN e ELSE e

\* `x as u8`
AsU8(x) == x % 256

-----------------------------------------------------------------------------
(* The random source.  StdRng is stood for by a 16-bit linear congruential *)
(* generator; AnyRng is an arbitrary R: Rng, whose draws are unconstrained.*)

AnyRng == -1

seed_from_u64(s) == (s * 7919 + 12345) % 65537

NextRng(r) == IF r = AnyRng THEN AnyRng ELSE (r * 75 + 74) % 65537

\* the outcomes rng.gen_range(0..n) can have from state r
gen_range(r, n) == IF r = AnyRng THEN 0 .. (n - 1) ELSE {(NextRng(r) \div 7) % n}

\* one iteration of SliceRandom::shuffle: swap(k, gen_index(rng, k + 1)), on a
\* 1-based sequence; st holds the sequence and the generator
ShuffleSwap(st, k) ==
    LET j == 1 + CHOOSE x \in gen_range(st.rng, k) : TRUE
    IN  [list |-> [st.list EXCEPT ![k] = st.list[j], ![j] = st.list[k]],
         rng |-> NextRng(st.rng)]

\* the iterations k = hi, hi - 1, ..., lo, split in halves to keep the
\* evaluation shallow
RECURSIVE ShuffleRange(_, _, _)
ShuffleRange(st, lo, hi) ==
    IF lo > hi THEN st
    ELSE IF lo = hi THEN ShuffleSwap(st, lo)
    ELSE LET upper == ShuffleRange(st, ((lo + hi) \div 2) + 1, hi)
         IN  Then(upper, ShuffleRange(upper, lo, (lo + hi) \div 2))

\* SliceRandom::shuffle: for k in (1..len).rev() { swap(k, gen_index(k + 1)) }
shuffle(s, r) == ShuffleRange([list |-> s, rng |-> r], 2, Len(s))

-----------------------------------------------------------------------------
(* make_bases_offsets *)

ColorSize(s) == Pow(s, 2)
Size(s) == Pow(s, 3)

\* the n-th ColorBase, n = 0 .. scale^6 - 1
ColorBaseOf(n, s) ==
    LET color_size == ColorSize(s)
        r_base == n % color_size
        g_base == (n \div color_size) % color_size
        b_base == n \div Pow(color_size, 2)
    IN  <<AsU8(r_base), AsU8(g_base), AsU8(b_base)>>

UnshuffledBases(s) == [n \in 1 .. Pow(s, 6) |-> ColorBaseOf(n - 1, s)] \o << >>

\* mutant of SignVariants: the signs are left out
SignVariants_unsigned(c) == [k \in 1 .. 8 |-> <<c[1], c[2], c[3]>>]

\* the 8 sign variants of a colour, in the order of the vec! literal
SignVariants(c) ==
    << <<c[1], c[2], c[3]>>,   <<c[1], c[2], -c[3]>>,
       <<c[1], -c[2], c[3]>>,  <<c[1], -c[2], -c[3]>>,
       <<-c[1], c[2], c[3]>>,  <<-c[1], c[2], -c[3]>>,
       <<-c[1], -c[2], c[3]>>, <<-c[1], -c[2], -c[3]>> >>

UnsortedOffsets(s) ==
    LET b == UnshuffledBases(s)
    IN  [k \in 1 .. 8 * Len(b) |-> SignVariants(b[((k - 1) \div 8) + 1])[((k - 1) % 8) + 1]]

\* the sort key: the squared Euclidean magnitude
SqMagnitude(o) == o[1] * o[1] + o[2] * o[2] + o[3] * o[3]

\* sort_by_key is a stable sort: equal keys keep their order
RECURSIVE SortByKey(_, _, _)
SortByKey(s, key, maxKey) ==
    IF key > maxKey THEN << >>
    ELSE SelectSeq(s, LAMBDA o : SqMagnitude(o) = key) \o SortByKey(s, key + 1, maxKey)

\* mutant of SortedOffsets: the sort is left out
SortedOffsets_unsorted(s) == UnsortedOffsets(s)

SortedOffsets(s) ==
    LET u == UnsortedOffsets(s)
        keys == {SqMagnitude(u[k]) : k \in 1 .. Len(u)}
        maxKey == IF keys = {} THEN 0 ELSE CHOOSE x \in keys : \A y \in keys : y <= x
    IN  SortByKey(u, 0, maxKey)

\* color_offsets, computed once per scale
color_offsets_of == [s \in ScaleValues |-> SortedOffsets(s)]

color_offsets == color_offsets_of[scale]

\* make_bases_offsets(scale, rng): the shuffled bases and the generator after
make_bases_offsets(s, r) == shuffle(UnshuffledBases(s), r)

-----------------------------------------------------------------------------
(* hashbrown's HashSet<Location, BuildHasherDefault<XxHash64>>: the raw     *)
(* table is an array of control slots, EMPTY, DELETED or holding a         *)
(* Location.  growth_left counts the insertions left before a resize.      *)

EMPTY == << >>
DELETED == <<-1>>

\* hashbrown's Group::WIDTH (SSE2)
GroupWidth == 16

\* the fixed hasher: a deterministic mix of the two coordinates
XxHash64(l) == ((l[1] * 73 + l[2] * 151 + 29) * 97) % 1021

\* raw_table.buckets(); bucket b is ctrl[b + 1]
Buckets(t) == Len(t.ctrl)

is_bucket_full(t, b) == Len(t.ctrl[b + 1]) = 2

FullBuckets(t) == {b \in 0 .. (Buckets(t) - 1) : is_bucket_full(t, b)}

\* set.len()
SetLen(t) == Cardinality(FullBuckets(t))

\* set.is_empty()
SetIsEmpty(t) == FullBuckets(t) = {}

\* set.capacity(): items + growth_left
SetCapacity(t) == SetLen(t) + t.growth_left

\* the members of the set
Members(t) == {t.ctrl[b + 1] : b \in FullBuckets(t)}

capacity_to_buckets(cap) ==
    IF cap < 4 THEN 4
    ELSE IF cap < 8 THEN 8
    ELSE NextPowerOfTwo((cap * 8) \div 7)

bucket_mask_to_capacity(n) == IF n <= 8 THEN n - 1 ELSE (n \div 8) * 7

\* HashSet::default(): the unallocated singleton table
EmptyTable == [ctrl |-> <<EMPTY>>, growth_left |-> 0]

NewTable(n) == [ctrl |-> [b \in 1 .. n |-> EMPTY] \o << >>,
                growth_left |-> bucket_mask_to_capacity(n)]

\* the first slot that is not full, probing from the hash
find_insert_slot(t, h) ==
    LET n == Buckets(t)
        d == Min({k \in 0 .. (n - 1) : ~is_bucket_full(t, (h + k) % n)})
    IN  (h + d) % n

\* insert into a table known to have room
insert_no_grow(t, l) ==
    LET b == find_insert_slot(t, XxHash64(l))
    IN  [ctrl |-> [t.ctrl EXCEPT ![b + 1] = l],
         growth_left |-> IF t.ctrl[b + 1] = EMPTY THEN t.growth_left - 1 ELSE t.growth_left]

\* move bucket b of old into t, if it is full
MoveBucket(t, old, b) ==
    IF is_bucket_full(old, b) THEN insert_no_grow(t, old.ctrl[b + 1]) ELSE t

\* move the buckets lo .. hi of old into t, in index order (split in halves to
\* keep the evaluation shallow)
RECURSIVE MoveRange(_, _, _, _)
MoveRange(t, old, lo, hi) ==
    IF lo > hi THEN t
    ELSE IF lo = hi THEN MoveBucket(t, old, lo)
    ELSE LET lower == MoveRange(t, old, lo, (lo + hi) \div 2)
         IN  Then(lower, MoveRange(lower, old, ((lo + hi) \div 2) + 1, hi))

\* RawTable::resize(capacity): rehash into a fresh table
resize(t, cap) == MoveRange(NewTable(capacity_to_buckets(cap)), t, 0, Buckets(t) - 1)

\* HashSet::insert of a Location
insert(t, l) ==
    IF l \in Members(t) THEN t
    ELSE IF t.growth_left = 0
         THEN insert_no_grow(resize(t, Max2(SetLen(t) + 1,
                                            bucket_mask_to_capacity(Buckets(t)) + 1)), l)
         ELSE insert_no_grow(t, l)

\* the number of consecutive non-EMPTY slots from b in direction d (at most GroupWidth)
RECURSIVE RunLength(_, _, _, _)
RunLength(t, b, d, k) ==
    IF k >= GroupWidth \/ k >= Buckets(t) \/ t.ctrl[(b % Buckets(t)) + 1] = EMPTY THEN k
    ELSE RunLength(t, b + d + Buckets(t), d, k + 1)

\* mutant of erase: the slot is left as it is
erase_no_op(t, b) == t

\* RawTable::erase: a slot inside a run of GroupWidth non-empty slots becomes
\* DELETED, any other one EMPTY (and gives one insertion back)
erase(t, b) ==
    IF RunLength(t, b + Buckets(t) - 1, -1, 0) + RunLength(t, b, 1, 0) >= GroupWidth
    THEN [ctrl |-> [t.ctrl EXCEPT ![b + 1] = DELETED], growth_left |-> t.growth_left]
    ELSE [ctrl |-> [t.ctrl EXCEPT ![b + 1] = EMPTY], growth_left |-> t.growth_left + 1]

\* mutant of remove: reports the Location present but leaves it in the table
remove_not_erasing(t, l) == [set |-> t, was_present |-> l \in Members(t)]

\* HashSet::remove(&l): the table after it, and whether l was present
remove(t, l) ==
    IF l \in Members(t)
    THEN [set |-> erase(t, CHOOSE b \in FullBuckets(t) : t.ctrl[b + 1] = l), was_present |-> TRUE]
    ELSE [set |-> t, was_present |-> FALSE]

\* HashSet::shrink_to_fit
shrink_to_fit(t) ==
    IF SetLen(t) = 0 THEN EmptyTable
    ELSE IF capacity_to_buckets(SetLen(t)) < Buckets(t) THEN resize(t, SetLen(t))
    ELSE t

\* the first part of remove_random: the conditional shrink
remove_random_shrink(t) ==
    IF SetCapacity(t) >= 8 /\ SetLen(t) < SetCapacity(t) \div 4 THEN shrink_to_fit(t) ELSE t

\* (0..size).flat_map(|i| (0..size).map(move |j| [i, j])), as a sequence
AllLocations(size) == [k \in 1 .. size * size |-> <<(k - 1) \div size, (k - 1) % size>>]

\* insert s[lo], ..., s[hi] one by one (split in halves to keep the evaluation
\* shallow)
RECURSIVE InsertRange(_, _, _, _)
InsertRange(t, s, lo, hi) ==
    IF lo > hi THEN t
    ELSE IF lo = hi THEN insert(t, s[lo])
    ELSE LET lower == InsertRange(t, s, lo, (lo + hi) \div 2)
         IN  Then(lower, InsertRange(lower, s, ((lo + hi) \div 2) + 1, hi))

\* .collect() into the default table
Collect(s) == InsertRange(EmptyTable, s, 1, Len(s))

Locations(size) == (0 .. (size - 1)) \X (0 .. (size - 1))

-----------------------------------------------------------------------------
(* f64, at reduced precision: a value is an integer number of units of     *)
(* 2^-FRAC_BITS, and every result is rounded to MANT_BITS significant bits,*)
(* ties to even.  An angle is a number of sixteenths of a turn.            *)

FRAC_BITS == 10
MANT_BITS == 10

One == Pow(2, FRAC_BITS)

\* std::f64::consts::TAU, in sixteenths of a turn
TAU == 16

\* the spacing of the representable values around a (a >= 0)
RECURSIVE Ulp(_, _)
Ulp(a, u) == IF a < u * Pow(2, MANT_BITS) THEN u ELSE Ulp(a, 2 * u)

\* round to nearest, ties to even
FloatRound(x) ==
    LET a == Abs(x)
        u == Ulp(a, 1)
        q == a \div u
        r == a % u
        m == IF 2 * r > u \/ (2 * r = u /\ q % 2 = 1) THEN q + 1 ELSE q
    IN  IF x < 0 THEN -(m * u) ELSE m * u

\* sin and cos of k sixteenths of a turn, in units.  The argument is the
\* f64 nearest the angle, so at the quarter turns the results are not all
\* zero: sin(PI) = 1.2e-16, cos(PI/2) = 6.1e-17, cos(0.75*TAU) = -1.8e-16.
SinTable == <<0, 392, 724, 946, 1024, 946, 724, 392,
              1, -392, -724, -946, -1024, -946, -724, -392>>
CosTable == <<1024, 946, 724, 392, 1, -392, -724, -946,
              -1024, -946, -724, -392, -1, 392, 724, 946>>

Sin(d) == SinTable[(d % TAU) + 1]
Cos(d) == CosTable[(d % TAU) + 1]

\* (f / size as f64).floor()
FloorDiv(f, size) == f \div (size * One)

\* f - (f / size as f64).floor() * size as f64
Wrap(f, size) == FloatRound(f - FloorDiv(f, size) * size * One)

\* `f as usize`: truncation toward zero, negative values saturate at 0
AsUsize(f) == IF f < 0 THEN 0 ELSE f \div One

\* initial_turn_rate / (step as f64).powf(alpha)
TurnIncrement(rate, st, al) == rate \div Pow(st, al)

-----------------------------------------------------------------------------
(* color_base_to_color and the nearest-placed lookup *)

\* mutant of color_base_to_color: the product is not widened to u64
color_base_to_color_narrow(cb, color_size) ==
    [k \in 1 .. 3 |-> AsU8(AsU8(cb[k] * 255) \div (color_size - 1))]

\* cb.map(|cbc| (cbc as u64 * 255 / (color_size - 1)) as u8)
color_base_to_color(cb, color_size) ==
    [k \in 1 .. 3 |-> AsU8((cb[k] * 255) \div (color_size - 1))]

\* array_zip(color_base, offset).map(|(c, co)| c as i16 + co)
prov_new_color_base(cb, o) == <<cb[1] + o[1], cb[2] + o[2], cb[3] + o[3]>>

OutOfRange(p) == \E k \in 1 .. 3 : p[k] < 0 \/ p[k] > 255

\* prov_new_color_base.map(|c| c as u8)
new_color_base(p) == <<AsU8(p[1]), AsU8(p[2]), AsU8(p[3])>>

\* the indexes of the offsets that the filter_map keeps
Hits(cb, offsets, index) ==
    LET placed == DOMAIN index
    IN  {k \in 1 .. Len(offsets) :
            LET p == prov_new_color_base(cb, offsets[k])
            IN  ~OutOfRange(p) /\ new_color_base(p) \in placed}

\* .next(): the Location of the first hit, or None
most_similar_location(cb, offsets, index) ==
    LET h == Hits(cb, offsets, index)
    IN  IF h = {} THEN None
        ELSE index[new_color_base(prov_new_color_base(cb, offsets[Min(h)]))]

\* mutant of MapInsert: an insertion into a map that has entries is lost
MapInsert_lost(m, k, v) == IF DOMAIN m = {} THEN [x \in {k} |-> v] ELSE m

\* HashMap::insert
MapInsert(m, k, v) == [x \in DOMAIN m \cup {k} |-> IF x = k THEN v ELSE m[x]]

-----------------------------------------------------------------------------
(* remove_random(set, rng), called from three sites: the seed placement,   *)
(* the fallback placement and the set driver.                              *)

EntryPc(site) == CASE site = "seed" -> "seed_entry"
                   [] site = "fallback" -> "fallback_entry"
                   [] site = "set" -> "set_entry"

SamplePc(site) == CASE site = "seed" -> "seed_sample"
                    [] site = "fallback" -> "fallback_sample"
                    [] site = "set" -> "set_sample"

\* .expect(..) on None
ExpectPanicPc(site) == CASE site = "seed" -> "panic_dont_over_draw"
                         [] site = "fallback" -> "panic_dont_over_draw_later"
                         [] site = "set" -> "set_idle"

NoRet == [op |-> "none", arg |-> None, some |-> FALSE, value |-> None]

\* lines 59-66: the empty check, the conditional shrink, raw_table.buckets()
remove_random_entry(site) ==
    /\ pc = EntryPc(site)
    /\ IF SetIsEmpty(open_locs)
       THEN /\ pc' = ExpectPanicPc(site)
            /\ ret' = [op |-> "remove_random", arg |-> None, some |-> FALSE, value |-> None]
            /\ UNCHANGED open_locs
       ELSE /\ pc' = SamplePc(site)
            /\ open_locs' = remove_random_shrink(open_locs)
            /\ UNCHANGED ret
    /\ UNCHANGED <<scale, num_seeds, initial_turn_rate, alpha, cycle_cap, seed, rng,
                   color_bases, i, grid, initial_dirs, color_base_to_location,
                   dir, loc, step, hist, img>>

\* lines 67-80: one iteration of the sampling loop; on a full bucket the
\* element is removed and returned, and the caller goes on with it
remove_random_sample(site) ==
    /\ pc = SamplePc(site)
    /\ \E bucket_index \in gen_range(rng, Buckets(open_locs)) :
          IF is_bucket_full(open_locs, bucket_index)
          THEN LET element == open_locs.ctrl[bucket_index + 1]
               IN  /\ open_locs' = erase(open_locs, bucket_index)
                   /\ ret' = [op |-> "remove_random", arg |-> None,
                              some |-> TRUE, value |-> element]
                   /\ hist' = [hist EXCEPT !.rr = @ + 1]
                   /\ IF site = "set"
                      THEN /\ pc' = "set_idle"
                           /\ rng' = NextRng(rng)
                           /\ UNCHANGED <<grid, initial_dirs, color_base_to_location, i>>
                      ELSE /\ rng' = NextRng(NextRng(rng))
                           /\ LET r1 == NextRng(rng)
                              IN  /\ grid' = [grid EXCEPT ![element] = color_bases[i + 1]]
                                  /\ \E h \in gen_range(r1, TAU) :
                                        initial_dirs' = [initial_dirs EXCEPT ![element] = h]
                                  /\ color_base_to_location' =
                                        MapInsert(color_base_to_location,
                                                  color_bases[i + 1], element)
                                  /\ i' = i + 1
                                  /\ pc' = "main"
          ELSE /\ rng' = NextRng(rng)
               /\ UNCHANGED <<pc, open_locs, ret, hist, grid, initial_dirs,
                              color_base_to_location, i>>
    /\ UNCHANGED <<scale, num_seeds, initial_turn_rate, alpha, cycle_cap, seed,
                   color_bases, dir, loc, step, img>>

-----------------------------------------------------------------------------
(* make_image *)

size == Size(scale)
color_size == ColorSize(scale)

NumSeedsValues(s) ==
    (0 .. MaxNumSeeds) \cup {n \in {Pow(s, 6) - 1, Pow(s, 6)} : n >= 0}

Init ==
    /\ pc = "make_image"
    /\ scale \in ScaleValues
    /\ num_seeds \in NumSeedsValues(scale)
    /\ initial_turn_rate \in 0 .. MaxTurnRate
    /\ alpha \in (IF initial_turn_rate = 0 THEN {0} ELSE AlphaValues)
    /\ cycle_cap \in 1 .. MaxCycleCap
    /\ seed \in 0 .. MaxSeed
    /\ rng = 0
    /\ color_bases = << >>
    /\ i = 0
    /\ grid = << >>
    /\ initial_dirs = << >>
    /\ color_base_to_location = << >>
    /\ open_locs = EmptyTable
    /\ dir = 0
    /\ loc = <<0, 0>>
    /\ step = 0
    /\ ret = NoRet
    /\ hist = [n |-> 0, rr |-> 0, rv |-> 0]
    /\ img = << >>

\* lines 99-109: the generator, the colour lists and the empty structures
make_image_setup ==
    /\ pc = "make_image"
    /\ LET made == make_bases_offsets(scale, seed_from_u64(seed))
       IN  /\ color_bases' = made.list
           /\ rng' = made.rng
    /\ grid' = [l \in Locations(size) |-> None]
    /\ initial_dirs' = [l \in Locations(size) |-> 0]
    /\ color_base_to_location' = << >>
    /\ open_locs' = Collect(AllLocations(size))
    /\ hist' = [n |-> size * size, rr |-> 0, rv |-> 0]
    /\ i' = 0
    /\ pc' = "main"
    /\ UNCHANGED <<scale, num_seeds, initial_turn_rate, alpha, cycle_cap, seed,
                   dir, loc, step, ret, img>>

\* lines 110-134: the head of one iteration of 'main
main_loop ==
    /\ pc = "main"
    /\ IF i >= Len(color_bases)
       THEN /\ pc' = "render"
            /\ UNCHANGED <<dir, loc, step>>
       ELSE IF i < num_seeds
       THEN /\ pc' = "seed_entry"
            /\ UNCHANGED <<dir, loc, step>>
       ELSE LET m == most_similar_location(color_bases[i + 1], color_offsets,
                                           color_base_to_location)
            IN  IF m = None
                THEN /\ pc' = "panic_seeded"
                     /\ UNCHANGED <<dir, loc, step>>
                ELSE /\ dir' = initial_dirs[m]
                     /\ loc' = <<m[1] * One, m[2] * One>>
                     /\ step' = 1
                     /\ pc' = "walk"
    /\ UNCHANGED <<scale, num_seeds, initial_turn_rate, alpha, cycle_cap, seed, rng,
                   color_bases, i, grid, initial_dirs, color_base_to_location,
                   open_locs, ret, hist, img>>

\* the position after one step from l with heading d
StepLoc(l, d) == <<FloatRound(l[1] + Sin(d)), FloatRound(l[2] + Cos(d))>>

\* loc.map(|f| (f - (f / size as f64).floor() * size as f64) as usize)
Pos(l, sz) == <<AsUsize(Wrap(l[1], sz)), AsUsize(Wrap(l[2], sz))>>

\* mutant of is_none: every cell is taken to be empty
is_none_always(g, pos) == TRUE

\* grid[pos[0]][pos[1]].is_none()
is_none(g, pos) == g[pos] = None

\* the range 1..cycle_cap*size of the walk loop
WalkRange(cap, sz) == 1 .. (cap * sz - 1)

\* lines 135-153: one iteration of the walk loop, or its exit to the fallback
walk_step ==
    /\ pc = "walk"
    /\ IF step \notin WalkRange(cycle_cap, size)
       THEN /\ pc' = "fallback_entry"
            /\ UNCHANGED <<dir, loc, step, grid, initial_dirs, color_base_to_location,
                           open_locs, ret, hist, i>>
       ELSE LET new_loc == StepLoc(loc, dir)
                new_dir == dir + TurnIncrement(initial_turn_rate, step, alpha)
                pos == Pos(new_loc, size)
            IN  /\ loc' = new_loc
                /\ dir' = new_dir
                /\ IF ~(pos[1] < size)
                   THEN /\ pc' = "panic_pos0"
                        /\ UNCHANGED <<step, grid, initial_dirs, color_base_to_location,
                                       open_locs, ret, hist, i>>
                   ELSE IF ~(pos[2] < size)
                   THEN /\ pc' = "panic_pos1"
                        /\ UNCHANGED <<step, grid, initial_dirs, color_base_to_location,
                                       open_locs, ret, hist, i>>
                   ELSE IF is_none(grid, pos)
                   THEN LET removed == remove(open_locs, pos)
                        IN  /\ grid' = [grid EXCEPT ![pos] = color_bases[i + 1]]
                            /\ initial_dirs' = [initial_dirs EXCEPT ![pos] = new_dir]
                            /\ color_base_to_location' =
                                  MapInsert(color_base_to_location, color_bases[i + 1], pos)
                            /\ open_locs' = removed.set
                            /\ ret' = [op |-> "remove", arg |-> pos,
                                       some |-> removed.was_present, value |-> None]
                            /\ hist' = IF removed.was_present
                                       THEN [hist EXCEPT !.rv = @ + 1] ELSE hist
                            /\ IF removed.was_present
                               THEN /\ i' = i + 1
                                    /\ pc' = "main"
                               ELSE /\ i' = i
                                    /\ pc' = "panic_was_present"
                            /\ UNCHANGED step
                   ELSE /\ step' = step + 1
                        /\ UNCHANGED <<pc, grid, initial_dirs, color_base_to_location,
                                       open_locs, ret, hist, i>>
    /\ UNCHANGED <<scale, num_seeds, initial_turn_rate, alpha, cycle_cap, seed, rng,
                   color_bases, img>>

\* lines 159-171: the image; color_size - 1 is a u64 divisor
render ==
    /\ pc = "render"
    /\ IF \E l \in DOMAIN grid : grid[l] # None /\ color_size - 1 = 0
       THEN /\ pc' = "panic_divide_by_zero"
            /\ UNCHANGED img
       ELSE /\ pc' = "done"
            /\ img' = [l \in DOMAIN grid |->
                          IF grid[l] = None THEN <<0, 0, 0>>
                          ELSE color_base_to_color(grid[l], color_size)]
    /\ UNCHANGED <<scale, num_seeds, initial_turn_rate, alpha, cycle_cap, seed, rng,
                   color_bases, i, grid, initial_dirs, color_base_to_location,
                   open_locs, dir, loc, step, ret, hist>>

Next ==
    \/ make_image_setup
    \/ main_loop
    \/ remove_random_entry("seed")
    \/ remove_random_sample("seed")
    \/ walk_step
    \/ remove_random_entry("fallback")
    \/ remove_random_sample("fallback")
    \/ render

Spec == Init /\ [][Next]_vars

\* a run is one sequential pass: every enabled step is eventually taken
FairSpec == Spec /\ WF_vars(Next)

\* the positions inside the fallback's call of remove_random
FallbackPcs == {"fallback_entry", "fallback_sample"}

\* a step of the fallback's call of remove_random
FallbackStep == remove_random_entry("fallback") \/ remove_random_sample("fallback")

\* the sequential run does not stop inside the fallback: weak fairness of
\* FallbackStep, WF_vars(FallbackStep), written out as
\* []<>~ENABLED <<FallbackStep>>_vars \/ []<><<FallbackStep>>_vars with the
\* enabling condition of the step, pc \in FallbackPcs (the entry always moves
\* pc and a sample always advances the generator)
FallbackFairness == []<>(pc \notin FallbackPcs) \/ []<><<FallbackStep>>_vars

FallbackFairSpec == Spec /\ FallbackFairness

-----------------------------------------------------------------------------
(* The set driver: remove_random and remove(&loc) on a HashSet<Location>   *)
(* collected from the Locations [0, 0], [0, 1], ..., in any interleaving,   *)
(* with an arbitrary random source.                                        *)

\* the Locations the driver inserts and removes
SetLocations == {<<0, j>> : j \in 0 .. (MaxSetLen - 1)}

SetInit ==
    /\ pc = "set_idle"
    /\ \E n \in 1 .. MaxSetLen :
          /\ open_locs = Collect(SubSeq(AllLocations(MaxSetLen), 1, n))
          /\ hist = [n |-> n, rr |-> 0, rv |-> 0]
    /\ rng = AnyRng
    /\ scale = 0
    /\ num_seeds = 0
    /\ initial_turn_rate = 0
    /\ alpha = 0
    /\ cycle_cap = 1
    /\ seed = 0
    /\ color_bases = << >>
    /\ i = 0
    /\ grid = << >>
    /\ initial_dirs = << >>
    /\ color_base_to_location = << >>
    /\ dir = 0
    /\ loc = <<0, 0>>
    /\ step = 0
    /\ ret = NoRet
    /\ img = << >>

\* a call of remove_random(&mut set, &mut rng)
set_call_remove_random ==
    /\ pc = "set_idle"
    /\ pc' = "set_entry"
    /\ UNCHANGED <<scale, num_seeds, initial_turn_rate, alpha, cycle_cap, seed, rng,
                   color_bases, i, grid, initial_dirs, color_base_to_location,
                   open_locs, dir, loc, step, ret, hist, img>>

\* a call of set.remove(&l), l present or absent
set_remove ==
    /\ pc = "set_idle"
    /\ \E l \in SetLocations :
          LET removed == remove(open_locs, l)
          IN  /\ open_locs' = removed.set
              /\ ret' = [op |-> "remove", arg |-> l,
                         some |-> removed.was_present, value |-> None]
              /\ hist' = IF removed.was_present THEN [hist EXCEPT !.rv = @ + 1] ELSE hist
    /\ UNCHANGED <<pc, scale, num_seeds, initial_turn_rate, alpha, cycle_cap, seed, rng,
                   color_bases, i, grid, initial_dirs, color_base_to_location,
                   dir, loc, step, img>>

SetNext ==
    \/ set_call_remove_random
    \/ remove_random_entry("set")
    \/ remove_random_sample("set")
    \/ set_remove

SetSpec == SetInit /\ [][SetNext]_vars

-----------------------------------------------------------------------------
(* The colour conversion on its own: color_base_to_color applied to one    *)
(* ColorBase of the colour space of a scale, as render applies it to a     *)
(* cell.                                                                   *)

\* the scales the conversion is tried for
ColorScaleValues == 2 .. MaxColorScale

\* the ColorBases of the colour space of scale s
ColorBases(s) ==
    LET c == 0 .. (ColorSize(s) - 1)
    IN  c \X c \X c

ColorInit ==
    /\ pc = "color_call"
    /\ scale \in ColorScaleValues
    /\ \E cb \in ColorBases(scale) : color_bases = <<cb>>
    /\ img = << >>
    /\ num_seeds = 0
    /\ initial_turn_rate = 0
    /\ alpha = 0
    /\ cycle_cap = 1
    /\ seed = 0
    /\ rng = 0
    /\ i = 0
    /\ grid = << >>
    /\ initial_dirs = << >>
    /\ color_base_to_location = << >>
    /\ open_locs = EmptyTable
    /\ dir = 0
    /\ loc = <<0, 0>>
    /\ step = 0
    /\ ret = NoRet
    /\ hist = [n |-> 0, rr |-> 0, rv |-> 0]

\* image::Rgb(color_base_to_color(color_base, color_size)), for one pixel
color_call ==
    /\ pc = "color_call"
    /\ img' = [l \in {<<0, 0>>} |-> color_base_to_color(color_bases[1], color_size)]
    /\ pc' = "color_return"
    /\ UNCHANGED <<scale, num_seeds, initial_turn_rate, alpha, cycle_cap, seed, rng,
                   color_bases, i, grid, initial_dirs, color_base_to_location,
                   open_locs, dir, loc, step, ret, hist>>

ColorNext == color_call

ColorSpec == ColorInit /\ [][ColorNext]_vars

-----------------------------------------------------------------------------
(* The enumeration of the colours on its own: the iterator                 *)
(* (0..scale.pow(6)).map(|n| ...).collect() of make_bases_offsets, one     *)
(* index per step, followed up to the index MaxGenIndex.                   *)

\* the scales the enumeration is tried for: the smallest valid ones, the
\* largest whose colour size fits a u8 component, and the next one
GenScaleValues == {2, 3, 16, 17}

GenInit ==
    /\ pc = "bases_map"
    /\ scale \in GenScaleValues
    /\ color_bases = << >>
    /\ img = << >>
    /\ num_seeds = 0
    /\ initial_turn_rate = 0
    /\ alpha = 0
    /\ cycle_cap = 1
    /\ seed = 0
    /\ rng = 0
    /\ i = 0
    /\ grid = << >>
    /\ initial_dirs = << >>
    /\ color_base_to_location = << >>
    /\ open_locs = EmptyTable
    /\ dir = 0
    /\ loc = <<0, 0>>
    /\ step = 0
    /\ ret = NoRet
    /\ hist = [n |-> 0, rr |-> 0, rv |-> 0]

\* lines 23-28: the closure applied to the next index n = color_bases.len()
bases_map ==
    /\ pc = "bases_map"
    /\ Len(color_bases) < Pow(scale, 6)
    /\ Len(color_bases) <= MaxGenIndex
    /\ color_bases' = Append(color_bases, ColorBaseOf(Len(color_bases), scale))
    /\ UNCHANGED <<pc, scale, num_seeds, initial_turn_rate, alpha, cycle_cap, seed, rng,
                   i, grid, initial_dirs, color_base_to_location,
                   open_locs, dir, loc, step, ret, hist, img>>

\* line 29: the range is exhausted and the vector is complete
bases_collect ==
    /\ pc = "bases_map"
    /\ Len(color_bases) = Pow(scale, 6)
    /\ pc' = "bases_collected"
    /\ UNCHANGED <<scale, num_seeds, initial_turn_rate, alpha, cycle_cap, seed, rng,
                   color_bases, i, grid, initial_dirs, color_base_to_location,
                   open_locs, dir, loc, step, ret, hist, img>>

GenNext ==
    \/ bases_map
    \/ bases_collect

GenSpec == GenInit /\ [][GenNext]_vars

-----------------------------------------------------------------------------
(* Properties *)

\* the parameter tuples section 6 of the specification calls valid
ValidScale == scale >= 2
ValidNumSeeds == 0 < num_seeds /\ num_seeds < Pow(scale, 6)
ValidParams == ValidScale /\ ValidNumSeeds /\ cycle_cap >= 1

PanicStates == {"panic_seeded", "panic_pos0", "panic_pos1", "panic_was_present",
                "panic_divide_by_zero", "panic_dont_over_draw",
                "panic_dont_over_draw_later"}

\* the placement loop has finished
LoopFinished == pc \in {"render", "done"}

EmptyCells == {l \in DOMAIN grid : grid[l] = None}

CellsOf(c) == {l \in DOMAIN grid : grid[l] = c}

C2_FilledCellsKept ==
    \A l \in DOMAIN grid :
        grid[l] # None => (grid'[l] = grid[l] /\ initial_dirs'[l] = initial_dirs[l])

C2_PlacedOnce ==
    LET filled == DOMAIN grid \ EmptyCells
    IN  Cardinality({grid[l] : l \in filled}) = Cardinality(filled)

C3_OpenIsEmptyCells ==
    /\ pc = "main" => /\ Members(open_locs) = EmptyCells
                      /\ SetLen(open_locs) = size * size - i
    /\ pc # "panic_was_present"

C3_NeverGains == pc # "make_image" => Members(open_locs') \subseteq Members(open_locs)

C3_OpenSet == [](C3_OpenIsEmptyCells) /\ [][C3_NeverGains]_vars

\* a walk has just placed a colour and removed its cell from the open set
C3_Witness ==
    /\ pc = "main"
    /\ scale = 2
    /\ i > num_seeds
    /\ ret.op = "remove"
    /\ ret.some
    /\ ret.arg \notin Members(open_locs)
    /\ SetLen(open_locs) < 32

\* C4: every run with valid parameters processes its scale^6 colours and stops
\* with the grid full and the open set empty: it never ends in a panic.
C4_RunsToCompletion ==
    ValidParams =>
        /\ pc \notin PanicStates
        /\ LoopFinished => (i = Pow(scale, 6) /\ EmptyCells = {} /\ SetIsEmpty(open_locs))

\* C5: a num_seeds outside 0 < num_seeds < scale^6 is rejected before any work:
\* no colour list, no removal from the open set, no cell written.
C5_NumSeedsRejected ==
    (ValidScale /\ ~ValidNumSeeds) =>
        /\ pc \in {"make_image", "config_error"}
        /\ color_bases = << >>
        /\ hist.rr = 0
        /\ EmptyCells = DOMAIN grid

\* C6: scale < 2 is rejected before any colour is enumerated or placed; the run
\* never gets to the placement loop or to rendering.
C6_ScaleRejected ==
    ~ValidScale =>
        /\ pc \in {"make_image", "config_error"}
        /\ color_bases = << >>

\* the squared Euclidean distance of two ColorBases
SqDistance(p, c) == SqMagnitude(<<p[1] - c[1], p[2] - c[2], p[3] - c[3]>>)

\* the Location the walk starts from (the walk has not moved yet)
WalkStart == <<loc[1] \div One, loc[2] \div One>>

\* C7: the nearest-placed lookup returns the Location of a placed colour whose
\* squared distance to the unplaced colour is minimal over all placed colours.
C7_NearestPlaced ==
    (pc = "walk" /\ step = 1) =>
        LET c == color_bases[i + 1]
            p == grid[WalkStart]
        IN  /\ p \in DOMAIN color_base_to_location
            /\ color_base_to_location[p] = WalkStart
            /\ \A q \in DOMAIN color_base_to_location : SqDistance(p, c) <= SqDistance(q, c)

\* the lookup chose among several placed colours at different distances
C7_Witness ==
    /\ pc = "walk"
    /\ step = 1
    /\ Cardinality(DOMAIN color_base_to_location) >= 3
    /\ \E q \in DOMAIN color_base_to_location :
          SqDistance(q, color_bases[i + 1]) > SqDistance(grid[WalkStart], color_bases[i + 1])
    /\ SqDistance(grid[WalkStart], color_bases[i + 1]) > 1

\* C8: once a colour has been placed the lookup finds a hit for every later
\* colour: the difference to every placed colour is in the offset list and
\* passes the range check, so expect("Seeded") never fails.
C8_AlwaysHit ==
    num_seeds >= 1 =>
        /\ pc # "panic_seeded"
        /\ (pc = "main" /\ i >= 1 /\ i < Len(color_bases)) =>
              LET c == color_bases[i + 1]
                  reached == {prov_new_color_base(c, color_offsets[k]) :
                                 k \in Hits(c, color_offsets, color_base_to_location)}
              IN  DOMAIN color_base_to_location \subseteq reached

\* a lookup has succeeded with one colour placed, which is not componentwise
\* above the colour looked up
C8_Witness ==
    /\ pc = "walk"
    /\ step = 1
    /\ num_seeds = 1
    /\ i = 1
    /\ \E k \in 1 .. 3 : grid[WalkStart][k] < color_bases[i + 1][k]

\* the step in which a call of remove_random by the driver returns
RemoveRandomReturns == pc \in {"set_entry", "set_sample"} /\ pc' = "set_idle"

\* C9: each of k <= n successive remove_random calls returns Some(loc), loc a
\* member before the call and not after it; no Location is returned twice (the
\* set never gains a member); after the k-th call the size is n - k; a call on
\* the empty set returns None and leaves the set unchanged.
C9_Return ==
    RemoveRandomReturns =>
        /\ ret'.op = "remove_random"
        /\ IF SetIsEmpty(open_locs)
           THEN ~ret'.some /\ open_locs' = open_locs
           ELSE /\ ret'.some
                /\ ret'.value \in Members(open_locs)
                /\ Members(open_locs') = Members(open_locs) \ {ret'.value}

C9_Size == (pc = "set_idle" /\ hist.rv = 0) => SetLen(open_locs) = hist.n - hist.rr

C9_NoReinsertion == Members(open_locs') \subseteq Members(open_locs)

C9_RemoveRandom == [](C9_Size) /\ [][C9_Return /\ C9_NoReinsertion]_vars

\* n >= 8 successive calls have emptied the set and one more returned None
C9_Witness ==
    /\ pc = "set_idle"
    /\ hist.n >= 8
    /\ hist.rr = hist.n
    /\ hist.rv = 0
    /\ ret.op = "remove_random"
    /\ ~ret.some

\* the step in which the driver calls set.remove(&l)
RemoveCalled == pc = "set_idle" /\ pc' = "set_idle" /\ ret'.op = "remove"

\* C10: removal by value returns true and removes exactly that Location when
\* it is present, returns false and changes nothing when it is absent, in any
\* interleaving with remove_random calls, also after the table has shrunk.
C10_Remove ==
    RemoveCalled =>
        IF ret'.arg \in Members(open_locs)
        THEN /\ ret'.some
             /\ Members(open_locs') = Members(open_locs) \ {ret'.arg}
             /\ SetLen(open_locs') = SetLen(open_locs) - 1
        ELSE /\ ~ret'.some
             /\ Members(open_locs') = Members(open_locs)
             /\ SetLen(open_locs') = SetLen(open_locs)

RoundDiv(a, b) == (2 * a + b) \div (2 * b)

\* the ColorBase handed to the conversion and the colour it returned
ConvertedBase == color_bases[1]
ConvertedColor == img[<<0, 0>>]

\* C11: for every colorSize = scale^2, scale >= 2, and every component c in
\* [0, colorSize - 1] the channel value is round(c * 255 / (colorSize - 1)),
\* rounding to the nearest integer.
C11_Rounded ==
    pc = "color_return" =>
        \A k \in 1 .. 3 :
            ConvertedColor[k] = RoundDiv(ConvertedBase[k] * 255, color_size - 1)

\* C12: the conversion maps the component 0 to 0 and the component
\* colorSize - 1 to 255, and is monotonic: a <= b implies that the value of a
\* is at most the value of b.
C12_EndpointsMonotonic ==
    pc = "color_return" =>
        \A j, k \in 1 .. 3 :
            /\ ConvertedBase[k] = 0 => ConvertedColor[k] = 0
            /\ ConvertedBase[k] = color_size - 1 => ConvertedColor[k] = 255
            /\ ConvertedBase[j] <= ConvertedBase[k] => ConvertedColor[j] <= ConvertedColor[k]

\* colorSize = 4: the components 0, 3 and 1 have been converted to 0, 255 and 85
C12_Witness ==
    /\ pc = "color_return"
    /\ color_size = 4
    /\ ConvertedBase = <<0, 3, 1>>
    /\ ConvertedColor = <<0, 255, 85>>

\* C16: the enumeration gives every colour exactly once: the stored triples of
\* the indexes enumerated so far are pairwise different and every component is
\* in [0, colorSize - 1], for every scale >= 2.
C16_EnumeratesOnce ==
    pc \in {"bases_map", "bases_collected"} =>
        /\ \A j, k \in 1 .. Len(color_bases) :
              color_bases[j] = color_bases[k] => j = k
        /\ \A k \in 1 .. Len(color_bases) : \A c \in 1 .. 3 :
              color_bases[k][c] \in 0 .. (color_size - 1)

\* C14: the walk falls back to a random open Location only after exactly
\* cycleCap * size steps have each landed on a filled cell (with cycleCap = 1
\* and size = 8, after 8 cells), not after cycleCap * size - 1.
C14_StepBudget ==
    (ValidParams /\ pc = "fallback_entry") => step - 1 = cycle_cap * size

\* the step in which the fallback places the colour
FallbackPlaces == pc = "fallback_sample" /\ pc' = "main"

\* C15: when the walk has used up its steps, the colour is placed in the same
\* iteration at a Location removed from the open set, whose cell was empty,
\* with a fresh heading and an entry in the index; the open set is not empty
\* at that moment (expect("Don't over draw later") never fails) and the
\* fallback always gets back to the head of the loop.
C15_NotEmpty ==
    ValidParams =>
        /\ pc # "panic_dont_over_draw_later"
        /\ pc = "fallback_entry" => ~SetIsEmpty(open_locs)

C15_Placement ==
    /\ FallbackPlaces =>
          /\ ret'.some
          /\ ret'.value \in Members(open_locs)
          /\ ret'.value \notin Members(open_locs')
          /\ grid[ret'.value] = None
          /\ grid'[ret'.value] = color_bases[i + 1]
          /\ initial_dirs'[ret'.value] \in gen_range(NextRng(rng), TAU)
          /\ color_base_to_location'[color_bases[i + 1]] = ret'.value
          /\ i' = i + 1
    /\ (pc \in FallbackPcs /\ ~FallbackPlaces) =>
          /\ i' = i
          /\ grid' = grid
          /\ pc' \in {"fallback_sample", "panic_dont_over_draw_later"}

C15_Terminates == (pc = "fallback_entry") ~> (pc = "main")

C15_Fallback == [](C15_NotEmpty) /\ [][C15_Placement]_vars /\ C15_Terminates

\* a fallback has just placed a colour, after a walk that used up its steps
C15_Witness ==
    /\ pc = "main"
    /\ ValidParams
    /\ i > num_seeds
    /\ step = cycle_cap * size
    /\ ret.op = "remove_random"
    /\ ret.some
    /\ grid[ret.value] = color_bases[i]

\* C17: after every walk step the wrapped position gives a cell index in
\* [0, size) on both axes, for positions at or beyond size and for negative
\* positions alike, so that neither assertion on pos fails.
C17_WrapInRange ==
    ValidScale =>
        /\ pc \notin {"panic_pos0", "panic_pos1"}
        /\ pc = "walk" => Pos(loc, size) \in Locations(size)

\* the integer nearest to f (f >= 0, halves up)
Nearest(f) == (2 * f + One) \div (2 * One)

\* the step in which the walk places the colour
WalkPlaces == pc = "walk" /\ pc' = "main"

\* C18: the cell the walk tests, and fills when it is empty, is the cell
\* nearest to the wrapped position (each coordinate rounded to the nearest
\* integer), and the heading recorded for it is the heading after the step's
\* turn increment.
C18_Step ==
    WalkPlaces =>
        /\ \A k \in 1 .. 2 : ret'.arg[k] = Nearest(Wrap(loc'[k], size)) % size
        /\ initial_dirs'[ret'.arg] = dir'
        /\ dir' = dir + TurnIncrement(initial_turn_rate, step, alpha)

C18_NearestCell == [][C18_Step]_vars

\* the colours processed so far
Placed == {color_bases[k] : k \in 1 .. i}

\* C19: after every iteration the index and the grid agree: index[c] = l if
\* and only if grid[l] = c, and the keys of the index are the placed colours;
\* every walk starts from a filled cell with the heading recorded for it, and
\* that heading was written in the step that filled the cell (an empty cell
\* has the default heading and is never read).
C19_IndexAgrees ==
    pc = "main" =>
        /\ DOMAIN color_base_to_location = Placed
        /\ \A c \in DOMAIN color_base_to_location :
              grid[color_base_to_location[c]] = c
        /\ \A l \in DOMAIN grid :
              grid[l] # None => /\ grid[l] \in DOMAIN color_base_to_location
                                /\ color_base_to_location[grid[l]] = l

C19_WalkFromFilled ==
    (pc = "walk" /\ step = 1) =>
        /\ grid[WalkStart] # None
        /\ dir = initial_dirs[WalkStart]
        /\ color_base_to_location[grid[WalkStart]] = WalkStart

C19_HeadingWritten ==
    \A l \in DOMAIN grid :
        IF grid[l] = None /\ l \in DOMAIN grid' /\ grid'[l] # None
        THEN initial_dirs'[l] \in (IF pc = "walk" THEN {dir'}
                                   ELSE gen_range(NextRng(rng), TAU))
        ELSE l \in DOMAIN initial_dirs' => initial_dirs'[l] = initial_dirs[l]

====
